---- MODULE Spec2Model ----
(***************************************************************************)
(* Document ingestion of the concierge bot: DocumentService                *)
(* (src/app/services/document_service.py) and the routes that call it.     *)
(*                                                                         *)
(* Texts are sequences of one-character strings.  The names mongo and      *)
(* datetime, which document_service.py uses without importing them, are    *)
(* taken to be the handles of app/__init__.py, Document the record class   *)
(* of models/document.py (the one with from_dict), and document.id its     *)
(* _id.  Every request is served by a thread; a thread is pre-empted only  *)
(* between two operations on the store.                                    *)
(***************************************************************************)
EXTENDS Integers, Sequences, FiniteSets, TLC

\* ------------------------------------------------------------ bounds ----
MaxThreads == 2     \* requests served at the same time
MaxDocs == 2        \* uploads accepted in one behaviour (uuid4 values used)
MaxTextLen == 5     \* longest text of the chunker specification
MaxChunkSize == 6   \* largest chunk_size of the chunker specification
MaxStoredChunks == 3  \* most chunks in a store of the retrieval specification
MaxQueryLen == 1    \* longest query of the retrieval specification
MaxTopK == 3        \* largest limit of a search
MaxBatch == 2       \* longest batch given to generate_embeddings

Threads == 1..MaxThreads
DocIds == 1..MaxDocs
NoDoc == 0

VARIABLES
  documents,          \* mongo.db.documents: id -> record
  document_chunks,    \* mongo.db.document_chunks, in insertion order
  files,              \* upload_folder: id -> saved file
  threads,            \* per request: position and locals of its handler
  chunk_size,         \* self.chunk_size
  chunk_overlap,      \* self.chunk_overlap
  embedding_model,    \* self.embedding_model is loaded
  PDF_AVAILABLE       \* PyPDF2 was imported

vars == <<documents, document_chunks, files, threads, chunk_size,
          chunk_overlap, embedding_model, PDF_AVAILABLE>>

\* -------------------------------------------------------------- text ----
Whitespace == {" ", "\n"}

Min(S) == CHOOSE x \in S : \A y \in S : x <= y

Max2(a, b) == IF a >= b THEN a ELSE b

\* index of the first whitespace character of text, Len(text)+1 if none
WordEnd(text) ==
  LET ws == {i \in 1..Len(text) : text[i] \in Whitespace}
  IN IF ws = {} THEN Len(text) + 1 ELSE Min(ws)

RECURSIVE Split(_)
\* str.split(): the maximal runs of non-whitespace characters, in order
Split(text) ==
  IF text = <<>> THEN <<>>
  ELSE IF Head(text) \in Whitespace THEN Split(Tail(text))
  ELSE <<SubSeq(text, 1, WordEnd(text) - 1)>>
         \o Split(SubSeq(text, WordEnd(text), Len(text)))

RECURSIVE Join(_)
\* ' '.join(words)
Join(words) ==
  IF words = <<>> THEN <<>>
  ELSE IF Len(words) = 1 THEN words[1]
  ELSE words[1] \o <<" ">> \o Join(Tail(words))

\* str.find(pat): offset of the first occurrence, -1 when there is none
Find(text, pat) ==
  LET hits == {i \in 0..(Len(text) - Len(pat)) :
                 SubSeq(text, i + 1, i + Len(pat)) = pat}
  IN IF hits = {} THEN -1 ELSE Min(hits)

RECURSIVE SumLen(_)
\* sum(len(w) + 1 for w in words)
SumLen(words) ==
  IF words = <<>> THEN 0 ELSE Len(Head(words)) + 1 + SumLen(Tail(words))

RECURSIVE Flatten(_)
Flatten(seqs) ==
  IF seqs = <<>> THEN <<>> ELSE Head(seqs) \o Flatten(Tail(seqs))

\* ------------------------------------------------------ allowed_file ----
allowed_extensions == {"pdf", "txt", "doc", "docx"}

\* str.lower() on the extensions of the model
Lower(s) ==
  CASE s = "PDF" -> "pdf"
    [] s = "TXT" -> "txt"
    [] OTHER -> s

\* allowed_file that only looks for a dot
allowed_file_any_extension(filename) == Len(filename) >= 2

\* A filename is the sequence of its dot-separated parts: <<"a","pdf">> is
\* "a.pdf", <<"", "pdf">> is ".pdf", <<"a">> is "a".
allowed_file(filename) ==
  /\ Len(filename) >= 2
  /\ Lower(filename[Len(filename)]) \in allowed_extensions

RECURSIVE StripDots(_)
StripDots(parts) ==
  IF parts = <<>> THEN <<>>
  ELSE IF Head(parts) = "" THEN StripDots(Tail(parts))
  ELSE IF parts[Len(parts)] = "" THEN StripDots(SubSeq(parts, 1, Len(parts) - 1))
  ELSE parts

\* werkzeug secure_filename on the names of the model: leading and trailing
\* dots are stripped
secure_filename(filename) == StripDots(filename)

\* ---------------------------------------------------------- extractor ----
RECURSIVE PdfPages(_, _, _)
PdfPages(pages, page_num, acc) ==
  IF page_num > Len(pages) THEN acc
  ELSE LET page_text == pages[page_num].text
           text_content == acc.text_content \o page_text \o <<"\n">>
       IN PdfPages(pages, page_num + 1,
            [text_content |-> text_content,
             pages_info |-> Append(acc.pages_info,
               [page_number |-> page_num,
                char_start |-> Len(text_content) - Len(page_text) - 1,
                char_end |-> Len(text_content) - 1])])

\* A saved file is [ok, pages]: ok is false when the file cannot be opened,
\* parsed or decoded; a page with ok false is one whose extract_text raises
\* (in a text file: a part that does not decode).
extract_text_from_pdf(file) ==
  IF \/ ~PDF_AVAILABLE
     \/ ~file.ok
     \/ file.pages = <<>>          \* a zero-byte file: PdfReader raises
     \/ \E i \in 1..Len(file.pages) : ~file.pages[i].ok
  THEN [raised |-> TRUE, text_content |-> <<>>, pages_info |-> <<>>]
  ELSE LET r == PdfPages(file.pages, 1, [text_content |-> <<>>, pages_info |-> <<>>])
       IN [raised |-> FALSE, text_content |-> r.text_content,
           pages_info |-> r.pages_info]

\* open(file_path, 'r', encoding='utf-8').read() and the single page entry
ReadTextFile(file) ==
  IF ~file.ok \/ \E i \in 1..Len(file.pages) : ~file.pages[i].ok
  THEN [raised |-> TRUE, text_content |-> <<>>, pages_info |-> <<>>]
  ELSE LET text_content == Flatten([i \in 1..Len(file.pages) |-> file.pages[i].text])
       IN [raised |-> FALSE, text_content |-> text_content,
           pages_info |-> <<[page_number |-> 1, char_start |-> 0,
                             char_end |-> Len(text_content)]>>]

\* ------------------------------------------------------------ chunker ----
\* the first page whose [char_start, char_end] holds chunk_start, else 1
PageNumber(pages_info, chunk_start) ==
  LET hit == {i \in 1..Len(pages_info) :
                /\ chunk_start >= pages_info[i].char_start
                /\ chunk_start <= pages_info[i].char_end}
  IN IF hit = {} THEN 1 ELSE pages_info[Min(hit)].page_number

\* MakeChunk with chunks numbered from 1
MakeChunkFromOne(text, pages_info, current_chunk, chunk_index) ==
  [index |-> chunk_index + 1, content |-> Join(current_chunk),
   start_char |-> 0, end_char |-> 0, page_number |-> 1]

MakeChunk(text, pages_info, current_chunk, chunk_index) ==
  LET chunk_text_ == Join(current_chunk)
      chunk_start == Find(text, chunk_text_)
      chunk_end == chunk_start + Len(chunk_text_)
  IN [index |-> chunk_index,
      content |-> chunk_text_,
      start_char |-> chunk_start,
      end_char |-> chunk_end,
      page_number |-> PageNumber(pages_info, chunk_start)]

\* current_chunk[-self.chunk_overlap//10:] if len(current_chunk) >
\* self.chunk_overlap//10 else [].  The slice index is (-chunk_overlap)//10,
\* that is -ceil(chunk_overlap/10); an index of 0 takes the whole list.
OverlapWords(current_chunk) ==
  IF Len(current_chunk) > chunk_overlap \div 10
  THEN LET k == (chunk_overlap + 9) \div 10
       IN IF k = 0 THEN current_chunk
          ELSE SubSeq(current_chunk, Max2(1, Len(current_chunk) - k + 1),
                      Len(current_chunk))
  ELSE <<>>

\* one iteration of `for word in words`
ChunkStep(text, pages_info, st, word) ==
  IF st.current_length + Len(word) + 1 > chunk_size /\ st.current_chunk # <<>>
  THEN LET next_chunk == OverlapWords(st.current_chunk) \o <<word>>
       IN [chunks |-> Append(st.chunks,
                        MakeChunk(text, pages_info, st.current_chunk, st.chunk_index)),
           current_chunk |-> next_chunk,
           current_length |-> SumLen(next_chunk),
           chunk_index |-> st.chunk_index + 1]
  ELSE [st EXCEPT !.current_chunk = Append(@, word),
                  !.current_length = @ + Len(word) + 1]

RECURSIVE ChunkLoop(_, _, _, _)
ChunkLoop(text, pages_info, st, words) ==
  IF words = <<>> THEN st
  ELSE ChunkLoop(text, pages_info, ChunkStep(text, pages_info, st, Head(words)),
                 Tail(words))

\* the locals of chunk_text before its loop
ChunkStart ==
  [chunks |-> <<>>, current_chunk |-> <<>>, current_length |-> 0, chunk_index |-> 0]

\* chunk_text with chunk_index carried on from the chunks already stored
\* instead of restarting at 0
chunk_text_index_continues(text, pages_info) ==
  LET st == ChunkLoop(text, pages_info,
                      [ChunkStart EXCEPT !.chunk_index = Len(document_chunks)],
                      Split(text))
  IN IF st.current_chunk # <<>>
     THEN Append(st.chunks,
                 MakeChunk(text, pages_info, st.current_chunk, st.chunk_index))
     ELSE st.chunks

\* chunk_text without the final `if current_chunk:` block
chunk_text_without_final(text, pages_info) ==
  ChunkLoop(text, pages_info, ChunkStart, Split(text)).chunks

chunk_text(text, pages_info) ==
  LET st == ChunkLoop(text, pages_info, ChunkStart, Split(text))
  IN IF st.current_chunk # <<>>
     THEN Append(st.chunks,
                 MakeChunk(text, pages_info, st.current_chunk, st.chunk_index))
     ELSE st.chunks

\* ----------------------------------------------------------- embedder ----
Count(text, c) == Cardinality({i \in 1..Len(text) : text[i] = c})

\* embedding_model.encode on one text: a vector of fixed dimension
Encode(text) == <<Count(text, "a"), Count(text, "b")>>

\* encode_raises: embedding_model.encode raised on this batch
generate_embeddings(texts, encode_raises) ==
  IF ~embedding_model \/ encode_raises
  THEN [i \in 1..Len(texts) |-> <<>>]
  ELSE [i \in 1..Len(texts) |-> Encode(texts[i])]

\* ---------------------------------------------------------- retrieval ----
\* A similarity is num / sqrt(den2), or nan.  0.0 / 0.0 on numpy floats is
\* nan with a RuntimeWarning, not an exception.
NaN == [nan |-> TRUE, num |-> 0, den2 |-> 1]

Ratio(num, den2) == [nan |-> FALSE, num |-> num, den2 |-> den2]

\* the `0` that the except branch of search_documents appends
ExceptScore == Ratio(0, 1)

\* 'similarity_score': 0.5 of the text search
DefaultScore == Ratio(1, 4)

RECURSIVE Dot(_, _)
\* np.dot on two vectors of one length
Dot(a, b) ==
  IF a = <<>> THEN 0 ELSE Head(a) * Head(b) + Dot(Tail(a), Tail(b))

\* np.dot(a, b) / (np.linalg.norm(a) * np.linalg.norm(b)); np.dot raises
\* ValueError on vectors of different lengths
CosineRaises(a, b) == Len(a) # Len(b)

CosineSimilarity(a, b) ==
  IF Dot(a, a) * Dot(b, b) = 0 THEN NaN
  ELSE Ratio(Dot(a, b), Dot(a, a) * Dot(b, b))

\* x < y on floats: False whenever one side is nan
ScoreLt(x, y) ==
  /\ ~x.nan
  /\ ~y.nan
  /\ IF x.num < 0 /\ y.num >= 0 THEN TRUE
     ELSE IF x.num >= 0 /\ y.num < 0 THEN FALSE
     ELSE IF x.num >= 0
     THEN x.num * x.num * y.den2 < y.num * y.num * x.den2
     ELSE x.num * x.num * y.den2 > y.num * y.num * x.den2

\* x == y on floats
ScoreEq(x, y) == ~x.nan /\ ~y.nan /\ ~ScoreLt(x, y) /\ ~ScoreLt(y, x)

Reverse(s) == [i \in 1..Len(s) |-> s[Len(s) + 1 - i]]

\* list.sort of CPython on a list shorter than 64: count_run finds the
\* run the list starts with, strictly descending or not
count_run(s) ==
  IF Len(s) <= 1 THEN [n |-> Len(s), descending |-> FALSE]
  ELSE LET descending == ScoreLt(s[2].similarity_score, s[1].similarity_score)
           n == CHOOSE k \in 2..Len(s) :
                  /\ \A j \in 3..k :
                       ScoreLt(s[j].similarity_score, s[j - 1].similarity_score)
                         = descending
                  /\ k < Len(s) =>
                       ScoreLt(s[k + 1].similarity_score, s[k].similarity_score)
                         # descending
       IN [n |-> n, descending |-> descending]

RECURSIVE BinaryPosition(_, _, _, _)
\* binarysort's search: where pivot goes in the sorted prefix s[1..r]
BinaryPosition(s, pivot, l, r) ==
  IF l >= r THEN l
  ELSE LET p == l + (r - l) \div 2
       IN IF ScoreLt(pivot.similarity_score, s[p + 1].similarity_score)
          THEN BinaryPosition(s, pivot, l, p)
          ELSE BinaryPosition(s, pivot, p + 1, r)

RECURSIVE binarysort(_, _)
\* binarysort: s[1..start-1] is sorted, insert the elements from start on
binarysort(s, start) ==
  IF start > Len(s) THEN s
  ELSE LET pivot == s[start]
           l == BinaryPosition(s, pivot, 0, start - 1)
       IN binarysort(SubSeq(s, 1, l) \o <<pivot>> \o SubSeq(s, l + 1, start - 1)
                       \o SubSeq(s, start + 1, Len(s)),
                     start + 1)

\* the forward sort: the first run, reversed when descending, then
\* binarysort for the rest
ForwardSort(s) ==
  LET run == count_run(s)
      first == IF run.descending
               THEN Reverse(SubSeq(s, 1, run.n)) \o SubSeq(s, run.n + 1, Len(s))
               ELSE s
  IN binarysort(first, run.n + 1)

\* a descending sort that sorts forward and reverses once, which turns the
\* order of equal elements around
sort_without_first_reversal(s) == Reverse(ForwardSort(s))

\* similarities.sort(key=lambda x: x[1], reverse=True): the list is
\* reversed, sorted forward, and reversed again
sort_reverse(s) == Reverse(ForwardSort(Reverse(s)))

\* str.lower() on one character
LowerChar(c) ==
  CASE c = "A" -> "a"
    [] c = "B" -> "b"
    [] OTHER -> c

RECURSIVE Like(_, _, _)
\* text LIKE pattern: % is any run of characters, _ any one character;
\* folds_case is the collation of the database
Like(text, pattern, folds_case) ==
  IF pattern = <<>> THEN text = <<>>
  ELSE IF Head(pattern) = "%"
  THEN \E k \in 0..Len(text) :
         Like(SubSeq(text, k + 1, Len(text)), Tail(pattern), folds_case)
  ELSE /\ text # <<>>
       /\ \/ Head(pattern) = "_"
          \/ Head(text) = Head(pattern)
          \/ folds_case /\ LowerChar(Head(text)) = LowerChar(Head(pattern))
       /\ Like(Tail(text), Tail(pattern), folds_case)

\* DocumentChunk.content.contains(query): content LIKE '%' || query || '%'
Contains(content, query, folds_case) ==
  Like(content, <<"%">> \o query \o <<"%">>, folds_case)

\* a chunks_query that joins every stored chunk, active or not
chunks_query_any_document(category) ==
  SelectSeq(document_chunks, LAMBDA c : c.document_id \in DOMAIN documents)

\* DocumentChunk.query.join(Document), filtered on the category when one
\* is given and on is_active; "" is the category None
chunks_query(category) ==
  SelectSeq(document_chunks,
            LAMBDA c :
              /\ c.document_id \in DOMAIN documents
              /\ category # "" => documents[c.document_id].category = category
              /\ documents[c.document_id].is_active)

\* query.strip()
Strip(query) == SelectSeq(query, LAMBDA c : c \notin Whitespace)

\* s[:limit] for limit >= 0
Take(s, limit) == SubSeq(s, 1, IF limit < Len(s) THEN limit ELSE Len(s))

\* an encoder that is tried whether or not the model was loaded
query_embedding_ignoring_model(query, encode_raises) ==
  IF encode_raises THEN <<>> ELSE Encode(query)

\* search_documents lines 341-347: the embedding of the query, <<>> for
\* None
QueryEmbedding(query, encode_raises) ==
  IF embedding_model /\ ~encode_raises THEN Encode(query) ELSE <<>>

\* search_documents lines 364-375: the scored candidates, those without a
\* stored embedding skipped
Similarities(chunks, query_embedding) ==
  LET embedded == SelectSeq(chunks, LAMBDA c : c.embedding # <<>>)
  IN [i \in 1..Len(embedded) |->
        [chunk |-> embedded[i],
         similarity_score |->
           IF CosineRaises(embedded[i].embedding, query_embedding)
           THEN ExceptScore
           ELSE CosineSimilarity(embedded[i].embedding, query_embedding)]]

\* search_documents lines 391-405: the text search
TextSearch(query, category, limit, folds_case) ==
  LET chunks == Take(SelectSeq(chunks_query(category),
                               LAMBDA c : Contains(c.content, query, folds_case)),
                     limit)
  IN [i \in 1..Len(chunks) |->
        [chunk |-> chunks[i], similarity_score |-> DefaultScore]]

\* search_documents lines 341-405, past the guard on the query: the
\* results, the branch that produced them, and the calls made on the way
SearchAfterGuard(query, category, limit, encode_raises, folds_case) ==
  LET query_embedding == QueryEmbedding(query, encode_raises)
      chunks == chunks_query(category)
      encode_calls == IF embedding_model THEN 1 ELSE 0
  IN IF query_embedding # <<>> /\ chunks # <<>>
     THEN [mode |-> "semantic", encode_calls |-> encode_calls,
           chunk_reads |-> 1,
           results |-> Take(sort_reverse(Similarities(chunks, query_embedding)),
                            limit)]
     ELSE [mode |-> "lexical", encode_calls |-> encode_calls,
           chunk_reads |-> IF query_embedding # <<>> THEN 2 ELSE 1,
           results |-> TextSearch(query, category, limit, folds_case)]

\* a search that has no guard on the query
search_unguarded(query, category, limit, encode_raises, folds_case) ==
  SearchAfterGuard(query, category, limit, encode_raises, folds_case)

\* search_documents on the store as it is
search_documents(query, category, limit, encode_raises, folds_case) ==
  IF Strip(query) = <<>>
  THEN [mode |-> "empty", encode_calls |-> 0, chunk_reads |-> 0,
        results |-> <<>>]
  ELSE SearchAfterGuard(query, category, limit, encode_raises, folds_case)

\* ------------------------------------------------------------ threads ----
\* the locals of a search request before it has run
NoSearch ==
  [query |-> <<>>, category |-> "", limit |-> 0, mode |-> "none",
   encode_calls |-> 0, chunk_reads |-> 0, like_folds_case |-> FALSE,
   results |-> <<>>]

\* the locals of a generate_embeddings call before it has run
NoBatch == [texts |-> <<>>, failing |-> 0, embeddings |-> <<>>]

IdleThread ==
  [pc |-> "idle", kind |-> "none", doc |-> NoDoc, filename |-> <<>>,
   original_filename |-> <<>>, chunks |-> <<>>, embeddings |-> <<>>, i |-> 0,
   result |-> "none", outcome |-> "none", search |-> NoSearch,
   batch |-> NoBatch]

\* what the caller of process_document does with its result: upload_document
\* catches and returns the document (lines 190-196), the reprocess route
\* flashes (documents.py lines 90-97)
HandlerOutcome(kind, result) ==
  IF kind = "upload" THEN "document"
  ELSE IF result = "true" THEN "flash_success"
  ELSE IF result = "false" THEN "flash_error"
  ELSE "flash_exception"

\* an upload that removes its record when process_document fails
DocumentsRolledBack(thr, result) ==
  IF thr.kind = "upload" /\ result # "true"
  THEN [d \in DOMAIN documents \ {thr.doc} |-> documents[d]]
  ELSE documents

\* the documents collection when process_document has ended with result:
\* neither process_document nor its callers write to it
DocumentsAfterProcess(thr, result) == documents

\* process_document ends: "true", "false", or "raised" for an exception
\* that leaves it
Finish(t, thr, result) ==
  /\ threads' = [threads EXCEPT ![t] =
       [thr EXCEPT !.pc = "done", !.result = result,
                   !.outcome = HandlerOutcome(thr.kind, result),
                   !.embeddings = <<>>, !.i = 0]]
  /\ documents' = DocumentsAfterProcess(thr, result)

\* process_document lines 200-203: find_one, `if not document_data`
FindStep(t, thr) ==
  IF thr.doc \notin DOMAIN documents
  THEN Finish(t, thr, "false")
  ELSE /\ threads' = [threads EXCEPT ![t] =
            [thr EXCEPT !.pc = "delete_chunks",
                        !.original_filename = documents[thr.doc].original_filename]]
       /\ UNCHANGED documents

\* uuid.uuid4(): an id no file was saved under
NextId == Cardinality(DOMAIN files) + 1

Page(text) == [ok |-> TRUE, text |-> text]

\* the requests of the model: file.filename and the bytes of the file
Uploads ==
  {[filename |-> <<"a", "txt">>,
    body |-> [ok |-> TRUE, pages |-> <<Page(<<"a", " ", "b", " ", "a", "a">>)>>]],
   [filename |-> <<"a", "PDF">>, body |-> [ok |-> FALSE, pages |-> <<>>]],
   [filename |-> <<"a", "exe">>,
    body |-> [ok |-> TRUE, pages |-> <<Page(<<"a">>)>>]],
   [filename |-> <<"a">>, body |-> [ok |-> TRUE, pages |-> <<Page(<<"a">>)>>]],
   [filename |-> <<"", "pdf">>,
    body |-> [ok |-> TRUE, pages |-> <<Page(<<"a">>)>>]]}

\* ---------------------------------------------------------------- store ----
\* a delete_many that empties the collection
delete_many_every_document(stored, document_id) == <<>>

\* a delete_many that deletes nothing
delete_many_nothing(stored, document_id) == stored

\* document_chunks.delete_many({'document_id': document_id})
delete_many(stored, document_id) ==
  SelectSeq(stored, LAMBDA c : c.document_id # document_id)

\* ------------------------------------------------------------ actions ----
\* a request is taken by the idle thread of lowest number
Accepts(t) ==
  /\ threads[t].pc = "idle"
  /\ \A u \in Threads : u < t => threads[u].pc # "idle"

upload_document(t, filename, body) ==
  /\ Accepts(t)
  /\ UNCHANGED <<chunk_size, chunk_overlap, embedding_model, PDF_AVAILABLE,
                 document_chunks>>
  /\ IF ~allowed_file(filename)
     THEN /\ threads' = [threads EXCEPT ![t] =
               [IdleThread EXCEPT !.pc = "done", !.kind = "upload",
                                  !.filename = filename, !.outcome = "ValueError"]]
          /\ UNCHANGED <<documents, files>>
     ELSE IF Len(secure_filename(filename)) < 2
     THEN /\ threads' = [threads EXCEPT ![t] =
               [IdleThread EXCEPT !.pc = "done", !.kind = "upload",
                                  !.filename = filename, !.outcome = "IndexError"]]
          /\ UNCHANGED <<documents, files>>
     ELSE /\ NextId \in DocIds
          /\ files' = files @@ (NextId :> body)
          /\ documents' = documents @@ (NextId :>
               [original_filename |-> secure_filename(filename),
                category |-> "policy",
                is_active |-> TRUE, is_indexed |-> FALSE])
          /\ threads' = [threads EXCEPT ![t] =
               [IdleThread EXCEPT !.pc = "find", !.kind = "upload",
                                  !.filename = filename, !.doc = NextId]]

\* upload_document line 192: process_document's find_one
ProcessFind(t) ==
  /\ threads[t].pc = "find"
  /\ FindStep(t, threads[t])
  /\ UNCHANGED <<document_chunks, files, chunk_size, chunk_overlap,
                 embedding_model, PDF_AVAILABLE>>

\* the reprocess route calls process_document
reprocess_document(t, document_id) ==
  /\ Accepts(t)
  /\ FindStep(t, [IdleThread EXCEPT !.kind = "reprocess", !.doc = document_id])
  /\ UNCHANGED <<document_chunks, files, chunk_size, chunk_overlap,
                 embedding_model, PDF_AVAILABLE>>

Last(s) == s[Len(s)]

\* process_document lines 208-222
Extract(original_filename, file) ==
  LET file_extension == Lower(Last(original_filename))
  IN IF file_extension = "pdf"
     THEN [unsupported |-> FALSE] @@ extract_text_from_pdf(file)
     ELSE IF file_extension \in {"txt", "doc", "docx"}
     THEN [unsupported |-> FALSE] @@ ReadTextFile(file)
     ELSE [unsupported |-> TRUE, raised |-> FALSE, text_content |-> <<>>,
           pages_info |-> <<>>]

\* process_document lines 206-226: delete_many, then everything up to the
\* first insert_one
ProcessDeleteChunks(t) ==
  /\ threads[t].pc = "delete_chunks"
  /\ document_chunks' = delete_many(document_chunks, threads[t].doc)
  /\ UNCHANGED <<files, chunk_size, chunk_overlap, embedding_model, PDF_AVAILABLE>>
  /\ LET thr == threads[t]
         ex == Extract(thr.original_filename, files[thr.doc])
         chunks == chunk_text(ex.text_content, ex.pages_info)
         chunk_contents == [i \in 1..Len(chunks) |-> chunks[i].content]
     IN IF ex.raised THEN Finish(t, thr, "raised")
        ELSE IF ex.unsupported THEN Finish(t, thr, "false")
        ELSE \E encode_raises \in (IF embedding_model /\ chunks # <<>>
                                    THEN BOOLEAN ELSE {FALSE}) :
               LET run == [thr EXCEPT !.chunks = chunks,
                             !.embeddings = generate_embeddings(chunk_contents,
                                                               encode_raises),
                             !.i = 1]
               IN IF chunks = <<>> THEN Finish(t, run, "true")
                  ELSE /\ threads' = [threads EXCEPT ![t] =
                                        [run EXCEPT !.pc = "insert"]]
                       /\ UNCHANGED documents

\* process_document lines 229-242: one insert_one, `return True` after the last
ProcessInsert(t) ==
  /\ threads[t].pc = "insert"
  /\ UNCHANGED <<files, chunk_size, chunk_overlap, embedding_model, PDF_AVAILABLE>>
  /\ LET thr == threads[t]
         chunk == thr.chunks[thr.i]
     IN /\ document_chunks' = Append(document_chunks,
             [document_id |-> thr.doc,
              chunk_index |-> chunk.index,
              content |-> chunk.content,
              embedding |-> thr.embeddings[thr.i],
              page_number |-> chunk.page_number,
              start_char |-> chunk.start_char,
              end_char |-> chunk.end_char])
        /\ IF thr.i = Len(thr.chunks) THEN Finish(t, thr, "true")
           ELSE /\ threads' = [threads EXCEPT ![t] = [thr EXCEPT !.i = @ + 1]]
                /\ UNCHANGED documents

\* api.py delete_document_route: find_one, 404 when absent
delete_document_route(t, document_id) ==
  /\ Accepts(t)
  /\ threads' = [threads EXCEPT ![t] =
       IF document_id \notin DOMAIN documents
       THEN [IdleThread EXCEPT !.pc = "done", !.kind = "delete",
                               !.doc = document_id, !.outcome = "404"]
       ELSE [IdleThread EXCEPT !.pc = "delete_many", !.kind = "delete",
                               !.doc = document_id]]
  /\ UNCHANGED <<documents, document_chunks, files, chunk_size, chunk_overlap,
                 embedding_model, PDF_AVAILABLE>>

\* delete_document_route: document_chunks.delete_many
DeleteChunks(t) ==
  /\ threads[t].pc = "delete_many"
  /\ document_chunks' = delete_many(document_chunks, threads[t].doc)
  /\ threads' = [threads EXCEPT ![t].pc = "delete_one"]
  /\ UNCHANGED <<documents, files, chunk_size, chunk_overlap, embedding_model,
                 PDF_AVAILABLE>>

\* delete_document_route: documents.delete_one and the 200 response
DeleteDocument(t) ==
  /\ threads[t].pc = "delete_one"
  /\ documents' = [d \in DOMAIN documents \ {threads[t].doc} |-> documents[d]]
  /\ threads' = [threads EXCEPT ![t].pc = "done", ![t].outcome = "200"]
  /\ UNCHANGED <<document_chunks, files, chunk_size, chunk_overlap,
                 embedding_model, PDF_AVAILABLE>>

\* the response is sent; the thread serves the next request
Respond(t) ==
  /\ threads[t].pc = "done"
  /\ threads' = [threads EXCEPT ![t] = IdleThread]
  /\ UNCHANGED <<documents, document_chunks, files, chunk_size, chunk_overlap,
                 embedding_model, PDF_AVAILABLE>>

\* the search route (documents.py lines 101-125) and search_documents:
\* `if not query` and `if not query.strip()` both answer with no results.
\* encode_raises: embedding_model.encode raised on the query; folds_case:
\* LIKE of the configured database ignores letter case
search_documents_route(t, query, category, limit) ==
  /\ Accepts(t)
  /\ \E encode_raises \in (IF embedding_model /\ Strip(query) # <<>>
                           THEN BOOLEAN ELSE {FALSE}) :
     \E folds_case \in BOOLEAN :
       LET found == search_documents(query, category, limit, encode_raises,
                                     folds_case)
       IN /\ found.mode # "lexical" => ~folds_case
          /\ threads' = [threads EXCEPT ![t] =
               [IdleThread EXCEPT !.pc = "done", !.kind = "search",
                  !.outcome = "200",
                  !.search = [query |-> query, category |-> category,
                              limit |-> limit, mode |-> found.mode,
                              encode_calls |-> found.encode_calls,
                              chunk_reads |-> found.chunk_reads,
                              like_folds_case |-> folds_case,
                              results |-> found.results]]]
  /\ UNCHANGED <<documents, document_chunks, files, chunk_size, chunk_overlap,
                 embedding_model, PDF_AVAILABLE>>

\* query_documents lines 244-280: every stored chunk with an embedding is
\* scored, no filter and no try; the results whose document is gone are
\* dropped after the cut to top_k
query_documents(t, query_text, top_k) ==
  /\ Accepts(t)
  /\ LET query_embedding == Encode(query_text)
         embedded == SelectSeq(document_chunks, LAMBDA c : c.embedding # <<>>)
         raises == \E i \in 1..Len(embedded) :
                     CosineRaises(query_embedding, embedded[i].embedding)
         similarities ==
           [i \in 1..Len(embedded) |->
              [chunk |-> embedded[i],
               similarity_score |->
                 CosineSimilarity(query_embedding, embedded[i].embedding)]]
         results == SelectSeq(Take(sort_reverse(similarities), top_k),
                              LAMBDA r : r.chunk.document_id \in DOMAIN documents)
         call == [NoSearch EXCEPT !.query = query_text, !.limit = top_k]
     IN threads' = [threads EXCEPT ![t] =
          IF ~embedding_model
          THEN [IdleThread EXCEPT !.pc = "done", !.kind = "query",
                  !.outcome = "returned",
                  !.search = [call EXCEPT !.mode = "unavailable"]]
          ELSE IF raises
          THEN [IdleThread EXCEPT !.pc = "done", !.kind = "query",
                  !.outcome = "ValueError",
                  !.search = [call EXCEPT !.mode = "semantic",
                                          !.encode_calls = 1,
                                          !.chunk_reads = 1]]
          ELSE [IdleThread EXCEPT !.pc = "done", !.kind = "query",
                  !.outcome = "returned",
                  !.search = [call EXCEPT !.mode = "semantic",
                                          !.encode_calls = 1,
                                          !.chunk_reads = 1,
                                          !.results = results]]]
  /\ UNCHANGED <<documents, document_chunks, files, chunk_size, chunk_overlap,
                 embedding_model, PDF_AVAILABLE>>

\* a call of generate_embeddings on a batch; failing is the position of the
\* text on which embedding_model.encode raises, 0 when it raises on none
generate_embeddings_call(t, texts, failing) ==
  /\ Accepts(t)
  /\ failing # 0 => embedding_model
  /\ threads' = [threads EXCEPT ![t] =
       [IdleThread EXCEPT !.pc = "done", !.kind = "embed",
          !.outcome = "returned",
          !.batch = [texts |-> texts, failing |-> failing,
                     embeddings |-> generate_embeddings(texts, failing # 0)]]]
  /\ UNCHANGED <<documents, document_chunks, files, chunk_size, chunk_overlap,
                 embedding_model, PDF_AVAILABLE>>

\* self.chunk_size = 1000 and self.chunk_overlap = 200, scaled to the texts
\* of the model: a window of two short words, one overlap word
ServiceChunkSize == 4

ServiceChunkOverlap == 10

\* the service of a deployment with PyPDF2 installed, with or without the
\* embedding model, and an empty store
Init ==
  /\ documents = <<>>
  /\ document_chunks = <<>>
  /\ files = <<>>
  /\ threads = [t \in Threads |-> IdleThread]
  /\ chunk_size = ServiceChunkSize
  /\ chunk_overlap = ServiceChunkOverlap
  /\ embedding_model \in BOOLEAN
  /\ PDF_AVAILABLE = TRUE

Next ==
  \E t \in Threads :
    \/ \E file \in Uploads : upload_document(t, file.filename, file.body)
    \/ ProcessFind(t)
    \/ \E d \in DocIds : reprocess_document(t, d)
    \/ ProcessDeleteChunks(t)
    \/ ProcessInsert(t)
    \/ \E d \in DocIds : delete_document_route(t, d)
    \/ DeleteChunks(t)
    \/ DeleteDocument(t)
    \/ Respond(t)

Spec == Init /\ [][Next]_vars

\* ------------------------------------------- one document, one thread ----
\* The pipeline on one stored document, run after run by a single thread,
\* for every text, chunk_size and chunk_overlap within the bounds.
Alphabet == {"a", "b", " "}

RECURSIVE TextsOfLen(_)
TextsOfLen(n) ==
  IF n = 0 THEN {<<>>}
  ELSE {Append(s, c) : s \in TextsOfLen(n - 1), c \in Alphabet}

Texts == UNION {TextsOfLen(n) : n \in 0..MaxTextLen}

BadPage == [ok |-> FALSE, text |-> <<>>]

StoredFiles ==
  {[filename |-> <<"a", "txt">>, body |-> [ok |-> TRUE, pages |-> <<Page(text)>>]] :
     text \in Texts}
  \cup
  {[filename |-> <<"a", "pdf">>, body |-> [ok |-> TRUE, pages |-> pages]] :
     pages \in {<<Page(<<"a", "a">>), Page(<<"b">>)>>,
                <<Page(<<"a", " ", "b">>), Page(<<"a">>)>>,
                <<Page(<<"a">>), BadPage, Page(<<"b">>)>>,
                <<>>}}

Overlaps == {0, 5, 10, 20}

\* the state right after upload_document has inserted the record of the
\* first document
InitSeq ==
  /\ \E file \in StoredFiles :
       /\ files = <<file.body>>
       /\ documents = <<[original_filename |-> file.filename,
                         category |-> "policy",
                         is_active |-> TRUE, is_indexed |-> FALSE]>>
       /\ threads = [t \in Threads |->
            IF t = 1
            THEN [IdleThread EXCEPT !.pc = "find", !.kind = "upload",
                                    !.filename = file.filename, !.doc = 1]
            ELSE IdleThread]
  /\ document_chunks = <<>>
  /\ chunk_size \in 2..MaxChunkSize
  /\ chunk_overlap \in Overlaps
  /\ embedding_model \in BOOLEAN
  /\ PDF_AVAILABLE \in BOOLEAN

NextSeq ==
  \/ ProcessFind(1)
  \/ reprocess_document(1, 1)
  \/ ProcessDeleteChunks(1)
  \/ ProcessInsert(1)
  \/ Respond(1)

SpecSeq == InitSeq /\ [][NextSeq]_vars

\* ------------------------------------------ one pdf across restarts ----
\* The service is stopped between requests and started again over the same
\* store: the module is imported anew (lines 6-11 set PDF_AVAILABLE by
\* whether PyPDF2 imports) and DocumentService() is constructed anew
\* (the embedding model loads or does not).
Restart ==
  /\ \A t \in Threads : threads[t].pc = "idle"
  /\ PDF_AVAILABLE' \in BOOLEAN
  /\ embedding_model' \in BOOLEAN
  /\ UNCHANGED <<documents, document_chunks, files, threads, chunk_size,
                 chunk_overlap>>

\* the first document is a pdf
InitRestart ==
  /\ InitSeq
  /\ Lower(Last(documents[1].original_filename)) = "pdf"

\* document 2 is never uploaded: a reprocess request for an unknown id
NextRestart ==
  \/ ProcessFind(1)
  \/ \E d \in DocIds : reprocess_document(1, d)
  \/ ProcessDeleteChunks(1)
  \/ ProcessInsert(1)
  \/ Respond(1)
  \/ Restart

SpecRestart == InitRestart /\ [][NextRestart]_vars

\* ---------------------------------------------------------- retrieval ----
\* Searches on a store that earlier requests have filled, for every store,
\* query, category and limit within the bounds.
QueryAlphabet == {"a", "A", "b", "_", " "}

RECURSIVE QueriesOfLen(_)
QueriesOfLen(n) ==
  IF n = 0 THEN {<<>>}
  ELSE {Append(s, c) : s \in QueriesOfLen(n - 1), c \in QueryAlphabet}

Queries == UNION {QueriesOfLen(n) : n \in 0..MaxQueryLen}

\* request.args.get('category', ''): none, or a category
Categories == {"", "policy", "menu"}

Limits == 0..MaxTopK

\* what a stored chunk can hold: the embedding of its content, [] when
\* encode raised in its run, or a vector of another dimension written
\* through DocumentChunk.update_embedding
StoredPayloads ==
  {[content |-> <<"a">>, embedding |-> Encode(<<"a">>)],
   [content |-> <<"a", "b">>, embedding |-> Encode(<<"a", "b">>)],
   [content |-> <<"a">>, embedding |-> <<>>],
   [content |-> <<"A">>, embedding |-> Encode(<<"A">>)],
   [content |-> <<"b">>, embedding |-> <<1>>]}

RECURSIVE PayloadsOfLen(_)
PayloadsOfLen(n) ==
  IF n = 0 THEN {<<>>}
  ELSE {Append(s, p) : s \in PayloadsOfLen(n - 1), p \in StoredPayloads}

\* the documents take turns inserting: chunk i is of document 1 when i is
\* odd and of document 2 when i is even
OwnerOf(i) == 2 - (i % 2)

\* the collection that holds the payloads in this order
StoreOf(payloads) ==
  [i \in 1..Len(payloads) |->
     [document_id |-> OwnerOf(i),
      chunk_index |-> (i - 1) \div 2,
      content |-> payloads[i].content,
      embedding |-> payloads[i].embedding,
      page_number |-> 1,
      start_char |-> 0,
      end_char |-> Len(payloads[i].content)]]

ChunkStores ==
  {StoreOf(p) : p \in UNION {PayloadsOfLen(n) : n \in 0..MaxStoredChunks}}

DocumentRecord(category, is_active) ==
  [original_filename |-> <<"a", "txt">>, category |-> category,
   is_active |-> is_active, is_indexed |-> TRUE]

\* document 1 alone (document 2 deleted), document 2 of either category,
\* active or not, and document 1 soft-deleted
DocumentStores ==
  {(1 :> DocumentRecord("policy", TRUE)),
   (1 :> DocumentRecord("policy", TRUE)) @@ (2 :> DocumentRecord("policy", TRUE)),
   (1 :> DocumentRecord("policy", TRUE)) @@ (2 :> DocumentRecord("menu", TRUE)),
   (1 :> DocumentRecord("policy", TRUE)) @@ (2 :> DocumentRecord("policy", FALSE)),
   (1 :> DocumentRecord("policy", FALSE)) @@ (2 :> DocumentRecord("menu", TRUE))}

BatchTexts == {<<"a">>, <<"b">>}

RECURSIVE BatchesOfLen(_)
BatchesOfLen(n) ==
  IF n = 0 THEN {<<>>}
  ELSE {Append(s, x) : s \in BatchesOfLen(n - 1), x \in BatchTexts}

Batches == UNION {BatchesOfLen(n) : n \in 0..MaxBatch}

InitSearch ==
  /\ documents \in DocumentStores
  /\ document_chunks \in ChunkStores
  /\ files = [d \in 1..2 |-> [ok |-> TRUE, pages |-> <<Page(<<"a">>)>>]]
  /\ threads = [t \in Threads |-> IdleThread]
  /\ chunk_size = ServiceChunkSize
  /\ chunk_overlap = ServiceChunkOverlap
  /\ embedding_model \in BOOLEAN
  /\ PDF_AVAILABLE = TRUE

NextSearch ==
  \/ \E query \in Queries, category \in Categories, limit \in Limits :
       search_documents_route(1, query, category, limit)
  \/ \E query \in Queries, top_k \in Limits : query_documents(1, query, top_k)
  \/ \E texts \in Batches, failing \in 0..MaxBatch :
       /\ failing <= Len(texts)
       /\ generate_embeddings_call(1, texts, failing)
  \/ Respond(1)

SpecSearch == InitSearch /\ [][NextSearch]_vars

\* ------------------------------------------------------------- claims ----
\* document_chunks.find({'document_id': d}) on the collection `stored`
StoredChunksIn(stored, d) == SelectSeq(stored, LAMBDA c : c.document_id = d)

StoredChunks(d) == StoredChunksIn(document_chunks, d)

\* a stored chunk without its embedding, as chunk_text describes it
Descriptors(stored) ==
  [i \in 1..Len(stored) |->
     [index |-> stored[i].chunk_index, content |-> stored[i].content,
      start_char |-> stored[i].start_char, end_char |-> stored[i].end_char,
      page_number |-> stored[i].page_number]]

\* thread t is inside process_document, after its find_one
InRun(t) == threads[t].pc \in {"delete_chunks", "insert"}

\* this step is the one in which t's process_document returns True
ReturnsTrue(t) ==
  /\ threads[t].pc # "done"
  /\ threads'[t].pc = "done"
  /\ threads'[t].result = "true"

\* C1: when a process run returns success, the chunk_index values stored
\* for its document are exactly 0..N-1, N the number of stored chunks.
C1_ChunkIndexRange ==
  [][\A t \in Threads :
       ReturnsTrue(t) =>
         LET stored == StoredChunksIn(document_chunks', threads'[t].doc)
         IN {stored[i].chunk_index : i \in 1..Len(stored)} = 0..(Len(stored) - 1)]_vars

\* C2: when a process run returns success, the chunks stored for its
\* document are exactly the chunks this run produced, in order.
C2_ChunkSetReplaced ==
  [][\A t \in Threads :
       ReturnsTrue(t) =>
         Descriptors(StoredChunksIn(document_chunks', threads'[t].doc))
           = threads'[t].chunks]_vars

\* C3: no two threads are inside process_document for the same document at
\* the same time.
C3_OneRunPerDocument ==
  \A t, u \in Threads :
    (t # u /\ InRun(t) /\ InRun(u)) => threads[t].doc # threads[u].doc

\* C4: once a document is deleted and no request on it is in flight any
\* more, no stored chunk carries its id.
C4_NoChunksOfDeletedDocument ==
  \A d \in DOMAIN files :
    (/\ d \notin DOMAIN documents
     /\ \A t \in Threads : threads[t].doc = d => threads[t].pc = "done")
    => StoredChunks(d) = <<>>

\* C5: process_document ends with True or False for every outcome; no
\* exception leaves it.
C5_ProcessReturnsBoolean ==
  \A t \in Threads : threads[t].result # "raised"

\* C6: when a process run returns success, is_indexed of its document is
\* true.
C6_IndexedAfterSuccess ==
  [][\A t \in Threads :
       (ReturnsTrue(t) /\ threads'[t].doc \in DOMAIN documents')
         => documents'[threads'[t].doc].is_indexed]_vars

\* C7: a run on a document that an earlier run has indexed, the file
\* unchanged, computes the chunk list the earlier run stored (same count,
\* and per chunk_index the same content, start_char, end_char, page_number),
\* and when it returns success that list is again what is stored.
C7_ReprocessSameChunks ==
  [][\A t \in Threads :
       /\ (threads[t].pc = "delete_chunks" /\ threads'[t].pc # "delete_chunks")
            => LET old == Descriptors(StoredChunks(threads[t].doc))
               IN old # <<>> =>
                    /\ threads'[t].result # "raised"
                    /\ threads'[t].chunks = old
       /\ ReturnsTrue(t)
            => Descriptors(StoredChunksIn(document_chunks', threads'[t].doc))
                 = threads'[t].chunks]_vars

\* a second run has returned success on a document of at least two chunks
C7_Witness ==
  \E t \in Threads :
    /\ threads[t].kind = "reprocess"
    /\ threads[t].pc = "done"
    /\ threads[t].result = "true"
    /\ Len(threads[t].chunks) >= 2
    /\ Descriptors(StoredChunks(threads[t].doc)) = threads[t].chunks

\* the text process_document extracted for the document of thread t
ExtractedText(t) ==
  Extract(threads[t].original_filename, files[threads[t].doc]).text_content

\* C8: every chunk that chunk_text produced has
\* 0 <= start_char <= end_char <= len(text).
C8_CharRange ==
  \A t \in Threads :
    \A i \in 1..Len(threads[t].chunks) :
      LET c == threads[t].chunks[i]
      IN /\ 0 <= c.start_char
         /\ c.start_char <= c.end_char
         /\ c.end_char <= Len(ExtractedText(t))

\* the allow-list as the specification states it, letter case ignored
HasListedExtension(filename) ==
  /\ Len(filename) >= 2
  /\ Lower(Last(filename)) \in {"pdf", "txt", "doc", "docx"}

\* C9: an upload whose extension is not in {pdf, txt, doc, docx} ends with
\* ValueError in the step that takes it, process_document is not called,
\* and no file, Document record or chunk is written.
C9_RejectedUploadWritesNothing ==
  [][\A t \in Threads :
       (/\ threads[t].pc = "idle"
        /\ threads'[t].kind = "upload"
        /\ ~HasListedExtension(threads'[t].filename))
       => /\ threads'[t].pc = "done"
          /\ threads'[t].outcome = "ValueError"
          /\ threads'[t].result = "none"
          /\ UNCHANGED <<documents, files, document_chunks>>]_vars

\* an upload of "a.exe" was rejected while a document was stored
C9_Witness ==
  \E t \in Threads :
    /\ threads[t].filename = <<"a", "exe">>
    /\ threads[t].outcome = "ValueError"
    /\ DOMAIN documents # {}

\* C10: when the process run of an upload returns False or raises, the
\* upload returns the document and the step leaves the documents
\* collection as it was.
C10_UploadKeepsDocument ==
  [][\A t \in Threads :
       (/\ threads[t].pc \notin {"idle", "done"}
        /\ threads'[t].pc = "done"
        /\ threads'[t].kind = "upload"
        /\ threads'[t].result \in {"false", "raised"})
       => /\ threads'[t].outcome = "document"
          /\ documents' = documents]_vars

\* an upload has returned its document after process_document raised, and
\* the record is in the store
C10_Witness ==
  \E t \in Threads :
    /\ threads[t].kind = "upload"
    /\ threads[t].pc = "done"
    /\ threads[t].result = "raised"
    /\ threads[t].outcome = "document"
    /\ threads[t].doc \in DOMAIN documents

\* thread t holds the answer of a search request
Searched(t) == threads[t].kind = "search" /\ threads[t].pc = "done"

\* C11: a search with the empty query answers with an empty result list,
\* whatever is stored, having made no encode call and no read of the chunks.
C11_EmptyQueryShortCircuits ==
  \A t \in Threads :
    (Searched(t) /\ threads[t].search.query = <<>>)
    => /\ threads[t].search.results = <<>>
       /\ threads[t].search.encode_calls = 0
       /\ threads[t].search.chunk_reads = 0

\* the empty query was searched with the model loaded and a chunk of an
\* active document stored
C11_Witness ==
  \E t \in Threads :
    /\ Searched(t)
    /\ threads[t].search.query = <<>>
    /\ embedding_model
    /\ chunks_query("") # <<>>

\* C12: the answer of a search has at most `limit` results, and no result
\* has a lower score than a result after it.
C12_AtMostTopKDescending ==
  \A t \in Threads :
    Searched(t) =>
      LET results == threads[t].search.results
      IN /\ Len(results) <= threads[t].search.limit
         /\ \A i, j \in 1..Len(results) :
              i < j => ~ScoreLt(results[i].similarity_score,
                                results[j].similarity_score)

\* C13: every result of a search is a chunk of a stored document with
\* is_active true and, when the search names a category, of that category.
C13_ResultsPassFilters ==
  \A t \in Threads :
    Searched(t) =>
      \A i \in 1..Len(threads[t].search.results) :
        LET d == threads[t].search.results[i].chunk.document_id
        IN /\ d \in DOMAIN documents
           /\ documents[d].is_active
           /\ threads[t].search.category # ""
                => documents[d].category = threads[t].search.category

\* a search on a category has results while a chunk of a document that is
\* soft-deleted or of another category is stored and matches the query
C13_Witness ==
  \E t \in Threads :
    /\ Searched(t)
    /\ threads[t].search.results # <<>>
    /\ threads[t].search.category # ""
    /\ \E i \in 1..Len(document_chunks) :
         LET c == document_chunks[i]
         IN /\ c.document_id \in DOMAIN documents
            /\ \/ ~documents[c.document_id].is_active
               \/ documents[c.document_id].category # threads[t].search.category
            /\ Contains(c.content, threads[t].search.query, TRUE)

\* no chunk that passes the filters of the search of t has a non-empty
\* embedding
NoCandidateEmbedded(t) ==
  LET chunks == chunks_query(threads[t].search.category)
  IN \A i \in 1..Len(chunks) : chunks[i].embedding = <<>>

\* C14: a search with the model loaded, over candidates none of which has
\* a non-empty embedding, takes the text search: every result has the
\* default score, and when a candidate contains the query and limit > 0
\* the answer is not empty.
C14_FallbackWithoutEmbeddings ==
  \A t \in Threads :
    (/\ Searched(t)
     /\ embedding_model
     /\ Strip(threads[t].search.query) # <<>>
     /\ NoCandidateEmbedded(t))
    => /\ threads[t].search.mode = "lexical"
       /\ \A i \in 1..Len(threads[t].search.results) :
            threads[t].search.results[i].similarity_score = DefaultScore
       /\ LET chunks == chunks_query(threads[t].search.category)
          IN (/\ threads[t].search.limit > 0
              /\ \E i \in 1..Len(chunks) :
                   Find(chunks[i].content, threads[t].search.query) # -1)
             => threads[t].search.results # <<>>

\* C15: with no embedding model loaded, every result of a search has the
\* default score of the text search.
C15_UnavailableEmbedderDefaultScore ==
  \A t \in Threads :
    (Searched(t) /\ ~embedding_model) =>
      \A i \in 1..Len(threads[t].search.results) :
        threads[t].search.results[i].similarity_score = DefaultScore

\* without the model, a search has returned a chunk that has a stored
\* embedding
C15_Witness ==
  \E t \in Threads :
    /\ Searched(t)
    /\ ~embedding_model
    /\ \E i \in 1..Len(threads[t].search.results) :
         /\ threads[t].search.results[i].chunk.embedding # <<>>
         /\ threads[t].search.results[i].similarity_score = DefaultScore

\* the squared norm of a vector
Norm2(a) == Dot(a, a)

\* C16: in the semantic branch of search_documents and in query_documents,
\* a result whose stored embedding has norm 0, and every scored result
\* when the embedding of the query has norm 0, has a score equal to 0.
C16_ZeroNormScoresZero ==
  \A t \in Threads :
    (/\ threads[t].pc = "done"
     /\ threads[t].kind \in {"search", "query"}
     /\ threads[t].search.mode = "semantic")
    => \A i \in 1..Len(threads[t].search.results) :
         LET r == threads[t].search.results[i]
         IN (\/ Norm2(r.chunk.embedding) = 0
             \/ Norm2(Encode(threads[t].search.query)) = 0)
            => ScoreEq(r.similarity_score, Ratio(0, 1))

\* C17: the answer of a search that took the semantic branch holds no
\* chunk whose stored embedding cannot be scored against the embedding of
\* the query.
C17_MalformedEmbeddingLeftOut ==
  \A t \in Threads :
    (Searched(t) /\ threads[t].search.mode = "semantic") =>
      \A i \in 1..Len(threads[t].search.results) :
        ~CosineRaises(threads[t].search.results[i].chunk.embedding,
                      Encode(threads[t].search.query))

\* the place of a stored chunk in the collection
ChunkPosition(c) ==
  CHOOSE i \in 1..Len(document_chunks) : document_chunks[i] = c

LowerText(text) == [i \in 1..Len(text) |-> LowerChar(text[i])]

\* query is a substring of content, letter case ignored
ContainsIgnoringCase(content, query) ==
  Find(LowerText(content), LowerText(query)) # -1

\* C19: the answer of a search that took the text search is the first
\* `limit` chunks, in insertion order, of those that pass the filters and
\* contain the query as a substring, letter case ignored.
C19_LexicalResultsExact ==
  \A t \in Threads :
    (Searched(t) /\ threads[t].search.mode = "lexical") =>
      LET results == threads[t].search.results
          matches == SelectSeq(chunks_query(threads[t].search.category),
                               LAMBDA c :
                                 ContainsIgnoringCase(c.content,
                                                      threads[t].search.query))
      IN [i \in 1..Len(results) |-> results[i].chunk]
           = Take(matches, threads[t].search.limit)

\* C20: generate_embeddings returns one vector per text, in order: the
\* empty vector at the position whose text failed (at every position when
\* no model is loaded), and the embedding of its text at every other one.
C20_OnlyFailedPositionEmpty ==
  \A t \in Threads :
    (threads[t].kind = "embed" /\ threads[t].pc = "done") =>
      LET batch == threads[t].batch
      IN /\ Len(batch.embeddings) = Len(batch.texts)
         /\ \A i \in 1..Len(batch.texts) :
              batch.embeddings[i] =
                IF ~embedding_model \/ i = batch.failing THEN <<>>
                ELSE Encode(batch.texts[i])

\* this step belongs to a process_document run of thread t
RunStep(t) ==
  /\ threads'[t] # threads[t]
  /\ \/ threads[t].pc \in {"find", "delete_chunks", "insert"}
     \/ threads[t].pc = "idle" /\ threads'[t].kind = "reprocess"

\* the candidates that a search draws from documents other than d
CandidatesOfOthers(d) ==
  SelectSeq(chunks_query(""), LAMBDA c : c.document_id # d)

\* C21: a step of a process run for a document, however the run ends,
\* leaves the record and the stored chunks of every other document as they
\* were, and with them the candidates a search draws from the other
\* documents.
C21_OtherDocumentsUntouched ==
  [][\A t \in Threads :
       RunStep(t) =>
         /\ \A d \in DocIds \ {threads'[t].doc} :
              /\ StoredChunksIn(document_chunks', d) = StoredChunks(d)
              /\ (d \in DOMAIN documents') = (d \in DOMAIN documents)
              /\ d \in DOMAIN documents => documents'[d] = documents[d]
         /\ \A d \in DocIds :
              d = threads'[t].doc
                => CandidatesOfOthers(d)' = CandidatesOfOthers(d)]_vars

\* a run has raised while another document has chunks in the store
C21_Witness ==
  \E t \in Threads :
    /\ threads[t].pc = "done"
    /\ threads[t].result = "raised"
    /\ \E d \in DOMAIN documents :
         d # threads[t].doc /\ StoredChunks(d) # <<>>

\* C22: when a delete answers with success, the record of its document is
\* gone and no stored chunk carries the document's id; a delete of an
\* unknown id answers with failure in a step that changes nothing.
C22_DeleteRemovesDocumentAndChunks ==
  [][\A t \in Threads :
       (threads'[t] # threads[t] /\ threads'[t].kind = "delete"
        /\ threads'[t].pc = "done")
       => /\ threads'[t].outcome = "200"
            => /\ threads'[t].doc \notin DOMAIN documents'
               /\ StoredChunksIn(document_chunks', threads'[t].doc) = <<>>
          /\ threads'[t].outcome = "404"
            => UNCHANGED <<documents, document_chunks, files>>]_vars

\* thread t holds the chunk list that chunk_text returned in its run
Chunked(t) ==
  \/ threads[t].pc = "insert"
  \/ threads[t].pc = "done" /\ threads[t].result = "true"

\* text.split() of the text extracted in the run of thread t
Tokens(t) == Split(ExtractedText(t))

\* the number of leading tokens whose single-space join fits into size
\* characters, one token at least
FittingTokens(tokens, size) ==
  CHOOSE k \in 1..Len(tokens) :
    /\ k = 1 \/ Len(Join(SubSeq(tokens, 1, k))) <= size
    /\ k < Len(tokens) => Len(Join(SubSeq(tokens, 1, k + 1))) > size

\* C23: every chunk content is the single-space join of a contiguous run
\* of the tokens of the text, and the first chunk holds the leading tokens
\* up to the last one that still fits chunk_size.
C23_ChunksAreTokenRuns ==
  \A t \in Threads :
    (Chunked(t) /\ threads[t].chunks # <<>>) =>
      LET tokens == Tokens(t)
      IN /\ \A n \in 1..Len(threads[t].chunks) :
              \E i, j \in 1..Len(tokens) :
                i <= j /\ threads[t].chunks[n].content = Join(SubSeq(tokens, i, j))
         /\ threads[t].chunks[1].content
              = Join(SubSeq(tokens, 1, FittingTokens(tokens, chunk_size)))

\* the locals of chunk_text in the run of thread t after n tokens
LocalsAfter(t, n) ==
  LET ex == Extract(threads[t].original_filename, files[threads[t].doc])
  IN ChunkLoop(ex.text_content, ex.pages_info, ChunkStart,
               SubSeq(Tokens(t), 1, n))

\* the last k elements of s, all of s when it has fewer
LastTokens(s, k) == SubSeq(s, Max2(1, Len(s) - k + 1), Len(s))

\* C24: whenever chunk_text closes a window on a token, the next window
\* is the last floor(chunk_overlap / 10) tokens of the closed window
\* followed by that token.
C24_OverlapSeed ==
  \A t \in Threads :
    Chunked(t) =>
      \A n \in 0..(Len(Tokens(t)) - 1) :
        LET before == LocalsAfter(t, n)
            after == LocalsAfter(t, n + 1)
        IN Len(after.chunks) > Len(before.chunks)
           => after.current_chunk
                = LastTokens(before.current_chunk, chunk_overlap \div 10)
                    \o <<Tokens(t)[n + 1]>>

\* C25: when the text has tokens, the window left at the end of the input
\* is the last chunk: the last chunk ends with the last token, and every
\* token is in some chunk.
C25_FinalWindowEmitted ==
  \A t \in Threads :
    (Chunked(t) /\ Tokens(t) # <<>>) =>
      LET tokens == Tokens(t)
          chunks == threads[t].chunks
      IN /\ chunks # <<>>
         /\ Last(chunks).content
              = Join(LocalsAfter(t, Len(tokens)).current_chunk)
         /\ Last(Split(Last(chunks).content)) = Last(tokens)
         /\ \A i \in 1..Len(tokens) :
              \E n \in 1..Len(chunks) :
                \E j \in 1..Len(Split(chunks[n].content)) :
                  Split(chunks[n].content)[j] = tokens[i]

\* a run has chunked a text into three chunks, the last of a single token
C25_Witness ==
  \E t \in Threads :
    /\ Chunked(t)
    /\ Len(threads[t].chunks) = 3
    /\ Len(Split(Last(threads[t].chunks).content)) = 1

\* the file of the document of thread t has no bytes
ZeroByteFile(t) ==
  LET file == files[threads[t].doc]
  IN /\ file.ok
     /\ IF Lower(Last(threads[t].original_filename)) = "pdf"
        THEN file.pages = <<>>
        ELSE \A i \in 1..Len(file.pages) :
               file.pages[i].ok /\ file.pages[i].text = <<>>

\* C26: chunk_text returns no chunk for a text without tokens, and a run
\* on a zero-byte file of an allowed extension returns, with no chunk
\* stored for the document.
C26_EmptyTextNoChunks ==
  \A t \in Threads :
    /\ (Chunked(t) /\ Tokens(t) = <<>>) => threads[t].chunks = <<>>
    /\ (/\ threads[t].pc = "done"
        /\ threads[t].result # "none"
        /\ PDF_AVAILABLE
        /\ ZeroByteFile(t))
       => /\ threads[t].result \in {"true", "false"}
          /\ StoredChunks(threads[t].doc) = <<>>

\* the saved file of the document of thread t is a pdf that opens and has
\* a page whose extract_text raises
PdfWithFailingPage(t) ==
  LET file == files[threads[t].doc]
  IN /\ Lower(Last(threads[t].original_filename)) = "pdf"
     /\ file.ok
     /\ \E i \in 1..Len(file.pages) : ~file.pages[i].ok

\* C27: a process run on a pdf with a page whose extraction fails is not
\* aborted: with PyPDF2 installed it does not end with an exception.
C27_FailedPageSkipped ==
  \A t \in Threads :
    (/\ threads[t].pc = "done"
     /\ threads[t].result # "none"
     /\ PDF_AVAILABLE
     /\ PdfWithFailingPage(t))
    => threads[t].result # "raised"

\* C28: a run of process_document that ends with an exception at
\* extraction, or with False for a document that exists, ends with no
\* chunk of the document stored, whatever was stored before; a run on an
\* unknown id ends with False and leaves the chunk store as it was.
C28_ChunksDeletedBeforeExtraction ==
  [][\A t \in Threads :
       (/\ threads[t].pc # "done"
        /\ threads'[t].pc = "done"
        /\ threads'[t].kind \in {"upload", "reprocess"}
        /\ threads'[t].result # "none")
       => IF threads'[t].doc \notin DOMAIN documents
          THEN /\ threads'[t].result = "false"
               /\ document_chunks' = document_chunks
          ELSE threads'[t].result \in {"raised", "false"}
               => StoredChunksIn(document_chunks', threads'[t].doc) = <<>>]_vars

\* a reprocess run has failed at extraction on a pdf that opens and whose
\* pages all extract: PyPDF2 is missing since the restart
C28_Witness ==
  \E t \in Threads :
    /\ threads[t].pc = "done"
    /\ threads[t].kind = "reprocess"
    /\ threads[t].result = "raised"
    /\ ~PDF_AVAILABLE
    /\ threads[t].doc \in DOMAIN files
    /\ files[threads[t].doc].ok
    /\ files[threads[t].doc].pages # <<>>
    /\ \A i \in 1..Len(files[threads[t].doc].pages) :
         files[threads[t].doc].pages[i].ok
    /\ StoredChunks(threads[t].doc) = <<>>

\* C29: in a process run with no other run on the document, after each
\* insert_one the chunks stored for the document are the first k chunks of
\* the run, in order, and carry the chunk_index values 0..k-1; when the
\* run returns True they are all its chunks.
C29_IndicesDenseDuringRun ==
  \A t \in Threads :
    LET stored == StoredChunks(threads[t].doc)
        k == IF threads[t].pc = "insert" THEN threads[t].i - 1
             ELSE Len(threads[t].chunks)
    IN Chunked(t)
       => /\ Len(stored) = k
          /\ \A j \in 1..k : /\ stored[j].chunk_index = j - 1
                             /\ stored[j].content = threads[t].chunks[j].content

\* two chunks are stored and a third is about to be
C29_Witness ==
  \E t \in Threads :
    /\ threads[t].pc = "insert"
    /\ threads[t].i = 3
    /\ Len(StoredChunks(threads[t].doc)) = 2

\* C30: every chunk of more than one token has a content of at most
\* chunk_size characters, the chunks whose window began with overlap
\* tokens included.
C30_MultiTokenChunkFits ==
  \A t \in Threads :
    Chunked(t)
    => \A i \in 1..Len(threads[t].chunks) :
         LET content == threads[t].chunks[i].content
         IN Len(Split(content)) > 1 => Len(content) <= chunk_size

====
